---- MODULE Spec2Model ----
(***************************************************************************)
(* Device-session coordinator of the viewer (crates/re_viewer/src/depthai): *)
(* the State aggregate, its setters, State::update and the websocket        *)
(* transport it talks through.                                              *)
(*                                                                          *)
(* Option<T> is modelled as a sequence of length 0 (None) or 1 (Some).      *)
(* Vec<T> is a sequence.  Every outbound message and every inbound event    *)
(* is a record of one fixed shape; the fields a kind does not use hold a    *)
(* neutral value.                                                           *)
(***************************************************************************)
EXTENDS Integers, Sequences, FiniteSets, TLC

VARIABLES
    devices_available,  \* State.devices_available : Option<Vec<DeviceId>>
    selected_device,    \* State.selected_device   : Device
    device_config,      \* State.device_config     : DeviceConfigState
    subscriptions,      \* State.subscriptions     : Vec<ChannelId>
    poll_instant,       \* State.poll_instant      : Option<Instant>, as seconds elapsed since it
    connected,          \* backend_comms.ws.connected
    receiver,           \* backend_comms.ws.receiver: the inbound queue, of WsMessage
    shut_down,          \* State::shutdown has been called
    panicked,           \* the thread that calls State has panicked
    sent,               \* what the last call put on backend_comms.ws.sender
    call,               \* the last call made on State, with its arguments
    misc_device_config, \* misc::depthai State.device_config : DeviceConfigState (HTTP variant)
    pipeline_request    \* the body of the last POST /pipeline issued, if any

vars == <<devices_available, selected_device, device_config, subscriptions,
          poll_instant, connected, receiver, shut_down, panicked, sent, call,
          misc_device_config, pipeline_request>>

---------------------------------------------------------------------------
(* Bounds of the model *)

MaxReceiver == 1
MaxSubsLen == 6
MaxWireQueue == 2

---------------------------------------------------------------------------
(* Types of depthai.rs *)

NoDevice == -1
PollPeriodSecs == 2

DeviceIds == {NoDevice, 7, 11}

None == <<>>
Some(x) == <<x>>
is_some(o) == Len(o) = 1
unwrap(o) == o[1]

ChannelId == <<"ColorImage", "LeftMono", "RightMono", "DepthImage", "PointCloud", "PinholeCamera">>

all_subscriptions == <<"ColorImage", "LeftMono", "RightMono", "DepthImage", "PointCloud">>

ColorCameraConfig_default == [fps |-> 30, resolution |-> "THE_1080_P"]

MonoCameraConfig_default == [fps |-> 30, resolution |-> "THE_400_P", board_socket |-> "AUTO"]

DepthConfig(pc) == [median |-> "KERNEL_7x7", pointcloud |-> [enabled |-> pc]]

AiModel_default == [path |-> "", display_name |-> "No model selected"]

DeviceConfig_default ==
    [color_camera |-> ColorCameraConfig_default,
     left_camera |-> MonoCameraConfig_default,
     right_camera |-> MonoCameraConfig_default,
     depth_enabled |-> FALSE,
     depth |-> None,
     ai_model |-> AiModel_default]

DeviceConfigState_default == [config |-> DeviceConfig_default, update_in_progress |-> FALSE]

Device(id) == [id |-> id]

Device_default == Device(NoDevice)

contains(v, x) == \E i \in 1..Len(v) : v[i] = x

Elems(v) == {v[i] : i \in 1..Len(v)}

---------------------------------------------------------------------------
(* Wire messages *)

\* An outbound message.  type is the value of the envelope's `type` field,
\* "" when the text sent has no envelope.
OutMsg(cmd, type, subs, id, config) ==
    [cmd |-> cmd, type |-> type, subscriptions |-> subs, device |-> Device(id), config |-> config]

\* An inbound event (ws.rs WsMessageData, with the Error payload depthai.rs reads).
InMsg(kind, subs, devices, id, config, action) ==
    [kind |-> kind, subscriptions |-> subs, devices |-> devices, device |-> Device(id),
     config |-> config, action |-> action]

InSubscriptions(subs) == InMsg("Subscriptions", subs, <<>>, NoDevice, DeviceConfig_default, "None")
InDevices(devices) == InMsg("Devices", <<>>, devices, NoDevice, DeviceConfig_default, "None")
InDevice(id) == InMsg("Device", <<>>, <<>>, id, DeviceConfig_default, "None")
InPipeline(config) == InMsg("Pipeline", <<>>, <<>>, NoDevice, config, "None")
InError(action) == InMsg("Error", <<>>, <<>>, NoDevice, DeviceConfig_default, action)

WsMessageType == {"Subscriptions", "Devices", "Device", "Pipeline", "Error"}

\* A message as the socket hands it to the listener (ewebsock WsMessage).
\* frame: "Text" or "Binary"; type: the value of the text's `type` field;
\* data_ok: whether its `data` field matches the schema of that type;
\* event: what `data` holds when it does.
WsMessage(frame, type, data_ok, event) ==
    [frame |-> frame, type |-> type, data_ok |-> data_ok, event |-> event]

\* The text of a well-formed event.
WsText(event) == WsMessage("Text", event.kind, TRUE, event)

\* A text whose `data` does not match the schema of its type.
WsBadData(type) == WsMessage("Text", type, FALSE, InError("None"))

\* A text whose `type` is none of WsMessageType.
WsUnknownType == WsMessage("Text", "Bogus", TRUE, InError("None"))

WsBinary == WsMessage("Binary", "", FALSE, InError("None"))

Malformed(m) == m.frame = "Text" /\ (m.type \notin WsMessageType \/ ~m.data_ok)

---------------------------------------------------------------------------
(* Inputs *)

MkConfig(ls, rs, depth, de) ==
    [DeviceConfig_default EXCEPT !.left_camera.board_socket = ls,
                                 !.right_camera.board_socket = rs,
                                 !.depth = depth,
                                 !.depth_enabled = de]

\* What the UI may hand to set_device_config.
CandidateConfigs ==
    {MkConfig("AUTO", "AUTO", None, FALSE),
     MkConfig("RIGHT", "LEFT", None, FALSE),
     MkConfig("RIGHT", "LEFT", Some(DepthConfig(TRUE)), TRUE)}

\* What the backend may report in a Pipeline event.
BackendConfigs ==
    {MkConfig("LEFT", "RIGHT", d, FALSE) : d \in {None, Some(DepthConfig(FALSE))}}

\* What the UI may hand to set_subscriptions.
CandidateSubscriptions ==
    {all_subscriptions,
     <<"PointCloud", "DepthImage", "RightMono", "LeftMono", "ColorImage">>}

\* What the backend may report in a Subscriptions event.
BackendSubscriptions == {<<"ColorImage", "LeftMono", "RightMono">>}

BackendDevices == {<<7, 11>>}

\* The devices the backend may report as selected.
BackendDeviceIds == {NoDevice, 7}

\* The sets of channels that may have a visible entity in a space view.
VisibleChannelSets == SUBSET Elems(all_subscriptions)

\* Orders in which the visibilities map may iterate its five keys.
VisibilityOrders ==
    {all_subscriptions,
     <<"PointCloud", "DepthImage", "RightMono", "LeftMono", "ColorImage">>,
     <<"DepthImage", "ColorImage", "PointCloud", "LeftMono", "RightMono">>}

\* Nothing visible, a colour view, a colour and a depth view, everything visible;
\* the map iterating in declaration order or in reverse.
FewVisibleChannelSets ==
    {{}, {"ColorImage"}, {"ColorImage", "DepthImage"}, Elems(all_subscriptions)}

FewVisibilityOrders ==
    {all_subscriptions,
     <<"PointCloud", "DepthImage", "RightMono", "LeftMono", "ColorImage">>}

---------------------------------------------------------------------------
(* The program state as one value, for the handlers *)

Cur ==
    [devices_available |-> devices_available,
     selected_device |-> selected_device,
     device_config |-> device_config,
     subscriptions |-> subscriptions,
     poll_instant |-> poll_instant,
     connected |-> connected,
     receiver |-> receiver,
     shut_down |-> shut_down,
     panicked |-> panicked,
     sent |-> <<>>]

\* A call on State runs on the thread that owns it, while that thread lives.
Apply(s, c) ==
    /\ ~panicked
    /\ devices_available' = s.devices_available
    /\ selected_device' = s.selected_device
    /\ device_config' = s.device_config
    /\ subscriptions' = s.subscriptions
    /\ poll_instant' = s.poll_instant
    /\ connected' = s.connected
    /\ receiver' = s.receiver
    /\ shut_down' = s.shut_down
    /\ panicked' = s.panicked
    /\ sent' = s.sent
    /\ call' = c
    /\ UNCHANGED <<misc_device_config, pipeline_request>>

\* A call on State: its name, its argument, and for update the event it received.
Call(op, id, config, subs, msg) ==
    [op |-> op, device_id |-> id, config |-> config, subscriptions |-> subs, msg |-> msg]

NoCall == Call("new", NoDevice, DeviceConfig_default, <<>>, None)

---------------------------------------------------------------------------
(* api.rs: BackendCommChannel *)

\* WebSocket::send of ws.rs.
ws_send_open(s, m) == [s EXCEPT !.sent = Append(@, m)]

\* WebSocket::send as it would be if shutdown left the sender in place.
ws_send_after_shutdown(s, m) == ws_send_open(s, m)

\* WebSocket::send with the shutdown contract: after shutdown it does nothing.
ws_send(s, m) == IF s.shut_down THEN s ELSE ws_send_open(s, m)

comms_set_subscriptions(s, subs) ==
    ws_send(s, OutMsg("Subscriptions", "Subscriptions", subs, NoDevice, DeviceConfig_default))

comms_set_pipeline(s, config) ==
    ws_send(s, OutMsg("Pipeline", "", <<>>, NoDevice, config))

comms_get_devices(s) ==
    ws_send(s, OutMsg("Devices", "Devices", <<>>, NoDevice, DeviceConfig_default))

comms_set_device(s, device_id) ==
    ws_send(s, OutMsg("Device", "Device", <<>>, device_id, DeviceConfig_default))

---------------------------------------------------------------------------
(* ws.rs: WebSocket *)

Ok(event) == [result |-> "Ok", msg |-> Some(event)]

\* The payload a type decodes to when `data` does not match its schema:
\* unwrap_or_default() for every type but Pipeline, whose unwrap() panics.
deserialize_bad_data(type) ==
    CASE type = "Subscriptions" -> Ok(InSubscriptions(<<>>))
      [] type = "Devices" -> Ok(InDevices(<<>>))
      [] type = "Device" -> Ok(InDevice(Device_default.id))
      [] type = "Pipeline" -> [result |-> "Panic", msg |-> None]
      [] type = "Error" -> Ok(InError("None"))

\* serde_json::from_str::<BackWsMessage> on the text of m.
deserialize(m) ==
    IF m.type \notin WsMessageType
    THEN [result |-> "Err", msg |-> None]
    ELSE IF m.data_ok THEN Ok(m.event) ELSE deserialize_bad_data(m.type)

\* WebSocket::receive of ws.rs: try_recv takes the oldest message off the
\* queue, if there is one; only a text that deserializes is returned.
ws_receive_open(s) ==
    IF Len(s.receiver) > 0
    THEN LET m == Head(s.receiver)
             s1 == [s EXCEPT !.receiver = Tail(@)]
         IN  IF m.frame = "Text"
             THEN LET d == deserialize(m)
                  IN  IF d.result = "Panic"
                      THEN [s |-> [s1 EXCEPT !.panicked = TRUE], msg |-> None]
                      ELSE [s |-> s1, msg |-> d.msg]
             ELSE [s |-> s1, msg |-> None]
    ELSE [s |-> s, msg |-> None]

\* WebSocket::receive with the shutdown contract: after shutdown it returns nothing.
ws_receive(s) == IF s.shut_down THEN [s |-> s, msg |-> None] ELSE ws_receive_open(s)

---------------------------------------------------------------------------
(* depthai.rs: impl State *)

subscriptions_unchanged(cur, subs) ==
    /\ Len(cur) = Len(subs)
    /\ \A i \in 1..Len(cur) : contains(subs, cur[i])

set_subscriptions(s, subs) ==
    IF subscriptions_unchanged(s.subscriptions, subs)
    THEN s
    ELSE [comms_set_subscriptions(s, subs) EXCEPT !.subscriptions = subs]

possible_subscriptions(config) ==
    <<"ColorImage", "LeftMono", "RightMono">>
        \o (IF is_some(config.depth)
            THEN <<"DepthImage">>
                     \o (IF unwrap(config.depth).pointcloud.enabled
                         THEN <<"PointCloud">>
                         ELSE <<>>)
            ELSE <<>>)

\* The filter as it would be if it took every channel with a visible entity.
visible_subscriptions_any(order, visible, possible) ==
    LET keep(channel) == channel \in visible
    IN  SelectSeq(order, keep)

\* The channels with a visible entity that the configuration can produce, in
\* the order the visibilities map iterates.
visible_subscriptions(order, visible, possible) ==
    LET keep(channel) == channel \in visible /\ contains(possible, channel)
    IN  SelectSeq(order, keep)

\* The loop as it would be if it kept nothing.
keep_unsent_nothing(subs, i, possible, cur) == subs

\* The loop over all_subscriptions() from its i-th channel on: a channel the
\* State is subscribed to and the configuration can produce is kept.
RECURSIVE keep_unsent(_, _, _, _)
keep_unsent(subs, i, possible, cur) ==
    IF i > Len(all_subscriptions)
    THEN subs
    ELSE LET channel == all_subscriptions[i]
             next == IF /\ ~contains(subs, channel)
                        /\ contains(possible, channel)
                        /\ contains(cur, channel)
                     THEN Append(subs, channel)
                     ELSE subs
         IN  keep_unsent(next, i + 1, possible, cur)

\* The list as it would be if every subscribed channel that is not visible
\* were kept, whatever the channel.
desired_subscriptions_keeping_all(s, order, visible) ==
    LET possible == possible_subscriptions(s.device_config.config)
        subs == visible_subscriptions(order, visible, possible)
        kept(channel) == ~contains(subs, channel)
    IN  subs \o SelectSeq(s.subscriptions, kept)

\* visible: the channels that have a visible entity in some space view;
\* order: the order in which the visibilities map iterates its keys.
desired_subscriptions(s, order, visible) ==
    LET possible == possible_subscriptions(s.device_config.config)
        subs == visible_subscriptions(order, visible, possible)
    IN  keep_unsent(subs, 1, possible, s.subscriptions)

set_subscriptions_from_space_views(s, order, visible) ==
    set_subscriptions(s, desired_subscriptions(s, order, visible))

get_devices(s) ==
    IF is_some(s.devices_available) THEN unwrap(s.devices_available) ELSE <<>>

\* set_device as it would be if it adopted the selection at once.
set_device_optimistic(s, device_id) ==
    IF s.selected_device.id = device_id
    THEN s
    ELSE [comms_set_device(s, device_id) EXCEPT !.selected_device = Device(device_id)]

\* set_device as it would be without its early return.
set_device_unguarded(s, device_id) == comms_set_device(s, device_id)

\* set_device as it would be if asking for a device reset update_in_progress.
set_device_clearing_flag(s, device_id) ==
    IF s.selected_device.id = device_id
    THEN s
    ELSE [comms_set_device(s, device_id) EXCEPT !.device_config.update_in_progress = FALSE]

set_device(s, device_id) ==
    IF s.selected_device.id = device_id
    THEN s
    ELSE comms_set_device(s, device_id)

\* The guard as it would be if it did not read the connected flag.
config_push_refused_ignoring_connected(s) == s.selected_device.id = NoDevice

config_push_refused(s) ==
    \/ ~s.connected
    \/ s.selected_device.id = NoDevice

\* The overwrite as it would be if only the left socket were set.
force_left_socket_only(config) ==
    [config EXCEPT !.left_camera.board_socket = "LEFT"]

force_board_sockets(config) ==
    [config EXCEPT !.left_camera.board_socket = "LEFT",
                   !.right_camera.board_socket = "RIGHT"]

\* set_device_config as it would be if it did not raise update_in_progress.
set_device_config_without_flag(s, config) ==
    IF config_push_refused(s)
    THEN s
    ELSE LET c == force_board_sockets(config)
             s1 == [s EXCEPT !.device_config.config = c]
         IN  comms_set_pipeline(s1, s1.device_config.config)

\* set_device_config as it would be if it refused a push while one is in flight.
set_device_config_one_in_flight(s, config) ==
    IF config_push_refused(s) \/ s.device_config.update_in_progress
    THEN s
    ELSE LET c == force_board_sockets(config)
             s1 == [s EXCEPT !.device_config.config = c]
             s2 == comms_set_pipeline(s1, s1.device_config.config)
         IN  [s2 EXCEPT !.device_config.update_in_progress = TRUE]

set_device_config(s, config) ==
    IF config_push_refused(s)
    THEN s
    ELSE LET c == force_board_sockets(config)
             s1 == [s EXCEPT !.device_config.config = c]
             s2 == comms_set_pipeline(s1, s1.device_config.config)
         IN  [s2 EXCEPT !.device_config.update_in_progress = TRUE]

\* The Pipeline arm's list as it would be if a depth configuration added nothing.
pipeline_subs_unchanged(cur, config) == cur

pipeline_subs(cur, config) ==
    IF is_some(config.depth)
    THEN IF unwrap(config.depth).pointcloud.enabled
         THEN cur \o <<"DepthImage", "PointCloud">>
         ELSE cur \o <<"DepthImage">>
    ELSE cur

\* The Subscriptions arm as it would be if it went through set_subscriptions.
on_subscriptions_via_setter(s, m) == set_subscriptions(s, m.subscriptions)

on_subscriptions(s, m) == [s EXCEPT !.subscriptions = m.subscriptions]

\* The Devices arm as it would be if it added the reported devices to the catalog.
on_devices_merging(s, m) ==
    LET old == IF is_some(s.devices_available) THEN unwrap(s.devices_available) ELSE <<>>
        new(d) == ~contains(old, d)
    IN  [s EXCEPT !.devices_available = Some(old \o SelectSeq(m.devices, new))]

on_devices(s, m) == [s EXCEPT !.devices_available = Some(m.devices)]

\* The Pipeline arm as it would be if, with a push in flight, it dropped an
\* echo that is not the configuration held.
on_pipeline_guarded(s, m) ==
    LET echoed == [m.config EXCEPT !.depth_enabled = is_some(m.config.depth)]
        subs == pipeline_subs(s.subscriptions, m.config)
        s1 == [s EXCEPT !.device_config.config = echoed]
        s2 == set_subscriptions(s1, subs)
    IN  IF s.device_config.update_in_progress /\ echoed # s.device_config.config
        THEN s
        ELSE [s2 EXCEPT !.device_config.update_in_progress = FALSE]

\* The Pipeline arm as it would be if it left update_in_progress as it is.
on_pipeline_keeping_flag(s, m) ==
    LET subs == pipeline_subs(s.subscriptions, m.config)
        s1 == [s EXCEPT !.device_config.config =
                            [m.config EXCEPT !.depth_enabled = is_some(m.config.depth)]]
    IN  set_subscriptions(s1, subs)

on_pipeline(s, m) ==
    LET subs == pipeline_subs(s.subscriptions, m.config)
        s1 == [s EXCEPT !.device_config.config =
                            [m.config EXCEPT !.depth_enabled = is_some(m.config.depth)]]
        s2 == set_subscriptions(s1, subs)
    IN  [s2 EXCEPT !.device_config.update_in_progress = FALSE]

\* The Device arm as it would be if it pushed the configuration first.
on_device_pipeline_first(s, m) ==
    LET s1 == [s EXCEPT !.selected_device = m.device]
        s2 == comms_set_pipeline(s1, s1.device_config.config)
        s3 == comms_set_subscriptions(s2, s2.subscriptions)
    IN  [s3 EXCEPT !.device_config.update_in_progress = TRUE]

on_device(s, m) ==
    LET s1 == [s EXCEPT !.selected_device = m.device]
        s2 == comms_set_subscriptions(s1, s1.subscriptions)
        s3 == comms_set_pipeline(s2, s2.device_config.config)
    IN  [s3 EXCEPT !.device_config.update_in_progress = TRUE]

\* The Error arm as it would be if it did not act on FullReset.
on_error_without_reset(s, m) == [s EXCEPT !.device_config.update_in_progress = FALSE]

on_error(s, m) ==
    LET s1 == [s EXCEPT !.device_config.update_in_progress = FALSE]
    IN  IF m.action = "FullReset" THEN set_device(s1, NoDevice) ELSE s1

dispatch(s, m) ==
    CASE m.kind = "Subscriptions" -> on_subscriptions(s, m)
      [] m.kind = "Devices" -> on_devices(s, m)
      [] m.kind = "Pipeline" -> on_pipeline(s, m)
      [] m.kind = "Device" -> on_device(s, m)
      [] m.kind = "Error" -> on_error(s, m)
      [] OTHER -> s

\* The poll as it would be without the two-second test.
poll_unthrottled(s) ==
    LET s1 == IF s.selected_device.id = NoDevice THEN comms_get_devices(s) ELSE s
    IN  [s1 EXCEPT !.poll_instant = Some(0)]

\* The poll as it would be if it asked for the devices whatever is selected.
poll_any_selection(s) ==
    IF is_some(s.poll_instant)
    THEN IF unwrap(s.poll_instant) < PollPeriodSecs
         THEN s
         ELSE [comms_get_devices(s) EXCEPT !.poll_instant = Some(0)]
    ELSE [s EXCEPT !.poll_instant = Some(0)]

\* The poll as it would be if it asked only while the catalog is unknown.
poll_until_catalog(s) ==
    IF is_some(s.poll_instant)
    THEN IF unwrap(s.poll_instant) < PollPeriodSecs
         THEN s
         ELSE LET s1 == IF s.selected_device.id = NoDevice /\ ~is_some(s.devices_available)
                        THEN comms_get_devices(s)
                        ELSE s
              IN  [s1 EXCEPT !.poll_instant = Some(0)]
    ELSE [s EXCEPT !.poll_instant = Some(0)]

poll(s) ==
    IF is_some(s.poll_instant)
    THEN IF unwrap(s.poll_instant) < PollPeriodSecs
         THEN s
         ELSE LET s1 == IF s.selected_device.id = NoDevice THEN comms_get_devices(s) ELSE s
              IN  [s1 EXCEPT !.poll_instant = Some(0)]
    ELSE [s EXCEPT !.poll_instant = Some(0)]

\* BackendCommChannel::shutdown, which closes the socket and the listener.
shutdown(s) == [s EXCEPT !.shut_down = TRUE, !.connected = FALSE]

\* update as it would be if the poll ran before the event is dispatched.
update_poll_first(s) ==
    LET r == ws_receive(s)
        s1 == poll(r.s)
    IN  IF r.s.panicked
        THEN r.s
        ELSE IF is_some(r.msg) THEN dispatch(s1, unwrap(r.msg)) ELSE s1

\* A panic inside receive unwinds through update: nothing after it runs.
update(s) ==
    LET r == ws_receive(s)
        s1 == IF is_some(r.msg) THEN dispatch(r.s, unwrap(r.msg)) ELSE r.s
    IN  IF r.s.panicked THEN r.s ELSE poll(s1)

---------------------------------------------------------------------------
(* misc/depthai.rs: the earlier variant, which posts the configuration over HTTP *)

\* misc::depthai DeviceConfig: three cameras, no depth.
MiscDeviceConfig(color_fps, mono_fps) ==
    [color_camera |-> [fps |-> color_fps, resolution |-> "THE_1080_P"],
     left_camera |-> [fps |-> mono_fps, resolution |-> "THE_400_P"],
     right_camera |-> [fps |-> mono_fps, resolution |-> "THE_400_P"]]

MiscDeviceConfig_default == MiscDeviceConfig(30, 30)

PipelineState(started) == [started |-> started]

\* A promise: pending, or ready with the PipelineState the response gave.
PendingPromise == [ready |-> FALSE, result |-> PipelineState(FALSE)]

ReadyPromise(state) == [ready |-> TRUE, result |-> state]

MiscDeviceConfigState_default ==
    [config |-> MiscDeviceConfig_default,
     config_update_promise |-> None,
     pipeline_state |-> None]

\* A DeviceConfigState d together with the body of the last request posted.
Posted(d, request) == [device_config |-> d, request |-> request]

\* DeviceConfigState::set: get_or_insert_with posts the stored configuration
\* only when no promise is held.
misc_set(d, request, config) ==
    IF d.config = config
    THEN Posted(d, request)
    ELSE LET d1 == [d EXCEPT !.config = config]
         IN  IF is_some(d1.config_update_promise)
             THEN Posted(d1, request)
             ELSE Posted([d1 EXCEPT !.config_update_promise = Some(PendingPromise)],
                         Some(d1.config))

\* The head of SelectionPanel::device_configuration_ui: a promise that is
\* ready gives its result to pipeline_state and is dropped.
take_ready_promise(d) ==
    IF is_some(d.config_update_promise) /\ unwrap(d.config_update_promise).ready
    THEN [d EXCEPT !.pipeline_state = Some(unwrap(d.config_update_promise).result),
                   !.config_update_promise = None]
    ELSE d

\* SelectionPanel::device_configuration_ui with config the configuration the
\* widgets show at the end of the frame.
device_configuration_ui(d, request, config) ==
    misc_set(take_ready_promise(d), request, config)

---------------------------------------------------------------------------
(* The state machine *)

Init ==
    /\ devices_available = None
    /\ selected_device = Device_default
    /\ device_config = DeviceConfigState_default
    /\ subscriptions = all_subscriptions
    /\ poll_instant = Some(0)
    /\ connected = FALSE
    /\ receiver = <<>>
    /\ shut_down = FALSE
    /\ panicked = FALSE
    /\ sent = <<>>
    /\ call = NoCall
    /\ misc_device_config = MiscDeviceConfigState_default
    /\ pipeline_request = None

\* The UI calls State::set_device.
SetDevice(id) ==
    Apply(set_device(Cur, id),
          Call("set_device", id, DeviceConfig_default, <<>>, None))

\* The UI calls State::set_device_config.
SetDeviceConfig(c) ==
    Apply(set_device_config(Cur, c),
          Call("set_device_config", NoDevice, c, <<>>, None))

\* The UI calls State::set_subscriptions.
SetSubscriptions(subs) ==
    Apply(set_subscriptions(Cur, subs),
          Call("set_subscriptions", NoDevice, DeviceConfig_default, subs, None))

\* The UI calls State::get_devices.
GetDevices ==
    Apply(Cur, Call("get_devices", NoDevice, DeviceConfig_default, <<>>, None))

\* The UI tick calls State::update.
Update ==
    /\ Len(update(Cur).subscriptions) <= MaxSubsLen
    /\ Apply(update(Cur),
             Call("update", NoDevice, DeviceConfig_default, <<>>, ws_receive(Cur).msg))

\* A second of wall-clock time passes.
Tick ==
    /\ is_some(poll_instant)
    /\ unwrap(poll_instant) < PollPeriodSecs
    /\ poll_instant' = Some(unwrap(poll_instant) + 1)
    /\ UNCHANGED <<devices_available, selected_device, device_config, subscriptions,
                   connected, receiver, shut_down, panicked, sent, call,
                   misc_device_config, pipeline_request>>

\* The network listener puts a message of the socket on the inbound queue.
Enqueue(m) ==
    /\ receiver' = Append(receiver, m)
    /\ UNCHANGED <<devices_available, selected_device, device_config, subscriptions,
                   poll_instant, connected, shut_down, panicked, sent, call,
                   misc_device_config, pipeline_request>>

\* The backend sends a well-formed event.
Listener(m) ==
    /\ Len(receiver) < MaxReceiver
    /\ Enqueue(WsText(m))

\* The socket opens or closes.
WsOpened ==
    /\ ~connected
    /\ connected' = TRUE
    /\ UNCHANGED <<devices_available, selected_device, device_config, subscriptions,
                   poll_instant, receiver, shut_down, panicked, sent, call,
                   misc_device_config, pipeline_request>>

WsClosed ==
    /\ connected
    /\ connected' = FALSE
    /\ UNCHANGED <<devices_available, selected_device, device_config, subscriptions,
                   poll_instant, receiver, shut_down, panicked, sent, call,
                   misc_device_config, pipeline_request>>

InEvents ==
    {InSubscriptions(l) : l \in BackendSubscriptions}
        \cup {InDevices(l) : l \in BackendDevices}
        \cup {InDevice(id) : id \in BackendDeviceIds}
        \cup {InPipeline(c) : c \in BackendConfigs}
        \cup {InError(a) : a \in {"None", "FullReset"}}

Next ==
    \/ \E id \in DeviceIds : SetDevice(id)
    \/ \E c \in CandidateConfigs : SetDeviceConfig(c)
    \/ \E subs \in CandidateSubscriptions : SetSubscriptions(subs)
    \/ GetDevices
    \/ Update
    \/ Tick
    \/ \E m \in InEvents : Listener(m)
    \/ WsOpened
    \/ WsClosed

Spec == Init /\ [][Next]_vars

---------------------------------------------------------------------------
(* The session fed by a socket that also delivers what the codec cannot read *)

\* What the socket may deliver: well-formed events of three kinds, a text of
\* unknown type, a binary frame, and texts whose data is not of their type.
WireMessages ==
    {WsText(InDevices(<<7, 11>>)),
     WsText(InDevice(7)),
     WsText(InError("FullReset")),
     WsUnknownType,
     WsBinary,
     WsBadData("Pipeline"),
     WsBadData("Subscriptions"),
     WsBadData("Device")}

WireListener(m) ==
    /\ Len(receiver) < MaxWireQueue
    /\ Enqueue(m)

WireNext ==
    \/ SetDevice(7)
    \/ Update
    \/ Tick
    \/ \E m \in WireMessages : WireListener(m)

WireSpec == Init /\ [][WireNext]_vars

---------------------------------------------------------------------------
(* The session with its teardown *)

\* The application calls State::shutdown.
Shutdown ==
    Apply(shutdown(Cur), Call("shutdown", NoDevice, DeviceConfig_default, <<>>, None))

\* The listener and the socket live until shutdown.
ListenerUntilShutdown(m) == ~shut_down /\ Listener(m)

WsOpenedUntilShutdown == ~shut_down /\ WsOpened

ShutdownEvents == {InDevices(<<7, 11>>), InDevice(7), InPipeline(MkConfig("LEFT", "RIGHT", None, FALSE))}

ShutdownNext ==
    \/ \E id \in {NoDevice, 7} : SetDevice(id)
    \/ SetDeviceConfig(MkConfig("AUTO", "AUTO", None, FALSE))
    \/ SetSubscriptions(<<"ColorImage", "LeftMono", "RightMono">>)
    \/ Update
    \/ Tick
    \/ \E m \in ShutdownEvents : ListenerUntilShutdown(m)
    \/ WsOpenedUntilShutdown
    \/ Shutdown

ShutdownSpec == Init /\ [][ShutdownNext]_vars

---------------------------------------------------------------------------
(* The session with the space views of the UI *)

\* The channels of visible in the order the visibilities map iterates.
InOrder(order, visible) ==
    LET shown(channel) == channel \in visible
    IN  SelectSeq(order, shown)

\* The UI calls State::set_subscriptions_from_space_views.
SetSubscriptionsFromSpaceViews(order, visible) ==
    Apply(set_subscriptions_from_space_views(Cur, order, visible),
          Call("set_subscriptions_from_space_views", NoDevice, DeviceConfig_default,
               InOrder(order, visible), None))

ViewsEvents ==
    {InPipeline(MkConfig("LEFT", "RIGHT", d, FALSE)) :
         d \in {None, Some(DepthConfig(FALSE)), Some(DepthConfig(TRUE))}}
        \cup {InSubscriptions(<<"ColorImage", "LeftMono", "RightMono">>), InDevice(7)}

\* The backend sends a well-formed event; the queue holds several.
ViewsListener(m) ==
    /\ Len(receiver) < MaxWireQueue
    /\ Enqueue(WsText(m))

ViewsNext ==
    \/ \E order \in FewVisibilityOrders, visible \in FewVisibleChannelSets :
           SetSubscriptionsFromSpaceViews(order, visible)
    \/ Update
    \/ \E m \in ViewsEvents : ViewsListener(m)

ViewsSpec == Init /\ [][ViewsNext]_vars

---------------------------------------------------------------------------
(* The session ticking while the backend runs ahead of it *)

QueueEvents ==
    {InDevices(<<7, 11>>), InDevice(7), InDevice(NoDevice),
     InPipeline(MkConfig("LEFT", "RIGHT", Some(DepthConfig(FALSE)), FALSE)),
     InError("FullReset")}

\* The backend sends a well-formed event; the queue holds several.
QueueListener(m) ==
    /\ Len(receiver) < MaxWireQueue
    /\ Enqueue(WsText(m))

QueueNext ==
    \/ Update
    \/ Tick
    \/ \E m \in QueueEvents : QueueListener(m)

QueueSpec == Init /\ [][QueueNext]_vars

---------------------------------------------------------------------------
(* The session with a channel kind the reconciler has no entry for *)

\* Space views that also show the entity of the PinholeCamera channel.
PinholeVisibleChannelSets ==
    {{"PinholeCamera"}, {"ColorImage", "PinholeCamera"},
     Elems(all_subscriptions) \cup {"PinholeCamera"}}

PinholeEvents ==
    {InSubscriptions(<<"ColorImage", "PinholeCamera">>),
     InSubscriptions(<<"PinholeCamera", "DepthImage", "LeftMono">>),
     InPipeline(MkConfig("LEFT", "RIGHT", None, FALSE)),
     InPipeline(MkConfig("LEFT", "RIGHT", Some(DepthConfig(TRUE)), FALSE))}

PinholeListener(m) ==
    /\ Len(receiver) < MaxWireQueue
    /\ Enqueue(WsText(m))

PinholeNext ==
    \/ \E order \in FewVisibilityOrders, visible \in PinholeVisibleChannelSets :
           SetSubscriptionsFromSpaceViews(order, visible)
    \/ Update
    \/ \E m \in PinholeEvents : PinholeListener(m)

PinholeSpec == Init /\ [][PinholeNext]_vars

---------------------------------------------------------------------------
(* The session with a backend that echoes every Pipeline command *)

\* What the UI may hand to set_device_config in this session.
EchoConfigs ==
    {DeviceConfig_default,
     [DeviceConfig_default EXCEPT !.color_camera.fps = 60],
     MkConfig("AUTO", "AUTO", Some(DepthConfig(FALSE)), TRUE)}

\* The Pipeline events with which the backend answers the commands of msgs:
\* one for each Pipeline command, in the order sent, carrying its configuration.
Echoes(msgs) ==
    LET is_pipeline(m) == m.cmd = "Pipeline"
        pushes == SelectSeq(msgs, is_pipeline)
    IN  [i \in 1..Len(pushes) |-> WsText(InPipeline(pushes[i].config))]

\* s once the backend has answered what the call sent: the commands reach
\* the backend in order and its answers wait on the inbound queue.
echoed(s) == [s EXCEPT !.receiver = @ \o Echoes(s.sent)]

\* s after update() calls, each answered by the backend, have emptied the queue.
RECURSIVE drained(_)
drained(s) ==
    IF Len(s.receiver) = 0
    THEN s
    ELSE drained(echoed(update([s EXCEPT !.sent = <<>>])))

\* The queue and the subscriptions that s leads to stay within the bounds.
EchoWithinBounds(s) ==
    /\ Len(s.receiver) <= MaxWireQueue
    /\ Len(drained(s).subscriptions) <= MaxSubsLen

EchoSetDeviceConfig(c) ==
    /\ EchoWithinBounds(echoed(set_device_config(Cur, c)))
    /\ Apply(echoed(set_device_config(Cur, c)),
             Call("set_device_config", NoDevice, c, <<>>, None))

EchoUpdate ==
    \E s \in {echoed(update(Cur))} :
        Apply(s, Call("update", NoDevice, DeviceConfig_default, <<>>, ws_receive(Cur).msg))

\* The backend reports the device it has selected.
EchoListener(id) ==
    /\ EchoWithinBounds([Cur EXCEPT !.receiver = Append(@, WsText(InDevice(id)))])
    /\ Enqueue(WsText(InDevice(id)))

EchoNext ==
    \/ \E c \in EchoConfigs : EchoSetDeviceConfig(c)
    \/ EchoUpdate
    \/ \E id \in BackendDeviceIds : EchoListener(id)
    \/ WsOpened

EchoSpec == Init /\ [][EchoNext]_vars

\* The UI tick keeps calling update().
EchoFairSpec == EchoSpec /\ WF_vars(EchoUpdate)

---------------------------------------------------------------------------
(* The session polling for devices while the clock runs *)

PollEvents ==
    {InDevices(<<7, 11>>), InDevice(7), InDevice(NoDevice), InError("FullReset")}

PollListener(m) ==
    /\ Len(receiver) < MaxWireQueue
    /\ Enqueue(WsText(m))

PollNext ==
    \/ Update
    \/ Tick
    \/ \E m \in PollEvents : PollListener(m)

PollSpec == Init /\ [][PollNext]_vars

\* The UI tick keeps calling update() and the clock keeps running.
PollFairSpec == PollSpec /\ WF_vars(Update) /\ WF_vars(Tick)

---------------------------------------------------------------------------
(* The earlier variant: the selection panel and the HTTP backend *)

\* What the widgets of the selection panel may show.
MiscConfigs ==
    {MiscDeviceConfig(30, 30), MiscDeviceConfig(60, 30),
     MiscDeviceConfig(30, 60), MiscDeviceConfig(60, 60)}

ApplyMisc(p) ==
    /\ misc_device_config' = p.device_config
    /\ pipeline_request' = p.request
    /\ UNCHANGED <<devices_available, selected_device, device_config, subscriptions,
                   poll_instant, connected, receiver, shut_down, panicked, sent, call>>

\* A frame of the selection panel.
DeviceConfigurationUi(config) ==
    ApplyMisc(device_configuration_ui(misc_device_config, pipeline_request, config))

\* The response to the request arrives: the callback of ehttp::fetch sends
\* the PipelineState to the promise.
PipelineResponse(ok) ==
    /\ misc_device_config.config_update_promise = Some(PendingPromise)
    /\ ApplyMisc(Posted([misc_device_config EXCEPT
                             !.config_update_promise = Some(ReadyPromise(PipelineState(ok)))],
                        pipeline_request))

HttpNext ==
    \/ \E config \in MiscConfigs : DeviceConfigurationUi(config)
    \/ \E ok \in BOOLEAN : PipelineResponse(ok)

HttpSpec == Init /\ [][HttpNext]_vars

---------------------------------------------------------------------------
(* Properties *)

Count(msgs, cmd) == Cardinality({i \in 1..Len(msgs) : msgs[i].cmd = cmd})

SocketsForced(config) ==
    /\ config.left_camera.board_socket = "LEFT"
    /\ config.right_camera.board_socket = "RIGHT"

\* The candidate with the two board sockets the protocol fixes.
Normalized(config) ==
    [config EXCEPT !.left_camera.board_socket = "LEFT",
                   !.right_camera.board_socket = "RIGHT"]

IsPipelinePush(msgs, config) ==
    /\ Len(msgs) = 1
    /\ msgs[1].cmd = "Pipeline"
    /\ msgs[1].config = config

\* C1: for every device id x, in every reachable state, two calls of
\* set_device(x) in a row put at most one Device command on the outbound
\* channel in total.
C1_SetDeviceTwiceSendsAtMostOne ==
    \A x \in DeviceIds :
        Count(set_device(set_device(Cur, x), x).sent, "Device") <= 1

\* C2: set_device(id) never changes selected_device; when id differs from the
\* selected device it sends exactly one Device{id} command; selected_device
\* changes only in a step in which update() processes an inbound Device event,
\* and then to the device that event carries.
C2_SetDeviceLeavesSelection ==
    \A id \in DeviceIds :
        LET r == set_device(Cur, id)
        IN  /\ r.selected_device = selected_device
            /\ id # selected_device.id =>
                  /\ Len(r.sent) = 1
                  /\ r.sent[1].cmd = "Device"
                  /\ r.sent[1].device.id = id

C2_SelectionOnlyByDeviceEvent ==
    selected_device' # selected_device =>
        /\ call'.op = "update"
        /\ is_some(call'.msg)
        /\ unwrap(call'.msg).kind = "Device"
        /\ selected_device' = unwrap(call'.msg).device

C2_SetDeviceNotOptimistic ==
    [] C2_SetDeviceLeavesSelection /\ [][C2_SelectionOnlyByDeviceEvent]_vars

\* Devices([7,11]) was received with no device selected, set_device(7) has sent
\* one Device{id:7}, and selected_device is still -1.
C2_Witness ==
    /\ devices_available = Some(<<7, 11>>)
    /\ call.op = "set_device"
    /\ call.device_id = 7
    /\ selected_device.id = NoDevice
    /\ Len(sent) = 1
    /\ sent[1].cmd = "Device"
    /\ sent[1].device.id = 7

\* C3: set_device(id) with id equal to selected_device.id sends nothing and
\* changes no field of State.
C3_SetDeviceSameIdIsNoOp ==
    \A id \in DeviceIds :
        id = selected_device.id => set_device(Cur, id) = Cur

\* set_device(7) was called with device 7 selected and an update in flight:
\* nothing was sent and the flag still stands.
C3_Witness ==
    /\ call.op = "set_device"
    /\ call.device_id = 7
    /\ selected_device.id = 7
    /\ sent = <<>>
    /\ device_config.update_in_progress

\* C4: in every reachable state set_subscriptions(S) sends nothing and leaves
\* State unchanged exactly when S and the current subscriptions hold the same
\* channels as sets.
C4_SetSubscriptionsNoOpIffSetEqual ==
    \A subs \in CandidateSubscriptions :
        (set_subscriptions(Cur, subs) = Cur) <=> (Elems(subs) = Elems(subscriptions))

\* C5: when S is not set-equal to the current subscriptions, set_subscriptions(S)
\* sends exactly one Subscriptions command whose payload is S and
\* State.subscriptions is S afterwards; a later inbound Subscriptions event
\* overwrites that value.
C5_SetSubscriptionsSendsAndAdopts ==
    \A subs \in CandidateSubscriptions :
        Elems(subs) # Elems(subscriptions) =>
            LET r == set_subscriptions(Cur, subs)
            IN  /\ Len(r.sent) = 1
                /\ r.sent[1].cmd = "Subscriptions"
                /\ r.sent[1].subscriptions = subs
                /\ r.subscriptions = subs
                /\ \A echo \in BackendSubscriptions :
                       dispatch(r, InSubscriptions(echo)).subscriptions = echo

\* C6: whatever board sockets the caller supplied, the Pipeline payload that
\* set_device_config transmits, and the configuration it stores when it
\* transmits, have left_camera.board_socket = LEFT and
\* right_camera.board_socket = RIGHT.
C6_SetDeviceConfigForcesSockets ==
    \A c \in CandidateConfigs :
        LET r == set_device_config(Cur, c)
        IN  \A i \in 1..Len(r.sent) :
                r.sent[i].cmd = "Pipeline" =>
                    /\ SocketsForced(r.sent[i].config)
                    /\ SocketsForced(r.device_config.config)

\* set_device_config was handed RIGHT for the left and LEFT for the right
\* camera, and has sent and stored LEFT and RIGHT.
C6_Witness ==
    /\ call.op = "set_device_config"
    /\ call.config.left_camera.board_socket = "RIGHT"
    /\ call.config.right_camera.board_socket = "LEFT"
    /\ Len(sent) = 1
    /\ sent[1].cmd = "Pipeline"
    /\ SocketsForced(sent[1].config)
    /\ device_config.config = sent[1].config

\* C7: every configuration push on any path, the re-push of the held
\* configuration on an inbound Device event included, carries
\* left_camera.board_socket = LEFT and right_camera.board_socket = RIGHT.
C7_EveryPushHasForcedSockets ==
    \A i \in 1..Len(sent) :
        sent[i].cmd = "Pipeline" => SocketsForced(sent[i].config)

\* C8: set_device_config sends nothing and changes nothing whenever the
\* connected flag is false or no device is selected.
C8_SetDeviceConfigRefused ==
    (~connected \/ selected_device.id = NoDevice) =>
        \A c \in CandidateConfigs : set_device_config(Cur, c) = Cur

\* set_device_config was called with a device selected and the socket not
\* connected, after the held configuration was confirmed: nothing was sent and
\* the flag is still down.
C8_Witness ==
    /\ call.op = "set_device_config"
    /\ ~connected
    /\ selected_device.id = 7
    /\ sent = <<>>
    /\ ~device_config.update_in_progress
    /\ Normalized(call.config) # device_config.config

\* C9: when connected and a device is selected, set_device_config(candidate)
\* whose normalized candidate equals the held configuration sends no Pipeline
\* command and does not set update_in_progress.
C9_SetDeviceConfigSameIsNoOp ==
    (connected /\ selected_device.id # NoDevice) =>
        \A c \in CandidateConfigs :
            Normalized(c) = device_config.config =>
                LET r == set_device_config(Cur, c)
                IN  /\ r.sent = <<>>
                    /\ r.device_config = device_config

\* C10: when connected, a device is selected and the normalized candidate
\* differs from the held configuration, set_device_config stores the candidate,
\* sets update_in_progress and sends exactly one Pipeline command carrying it.
C10_SetDeviceConfigPushes ==
    (connected /\ selected_device.id # NoDevice) =>
        \A c \in CandidateConfigs :
            Normalized(c) # device_config.config =>
                LET r == set_device_config(Cur, c)
                IN  /\ r.device_config.config = Normalized(c)
                    /\ r.device_config.update_in_progress
                    /\ IsPipelinePush(r.sent, Normalized(c))

\* set_device_config has stored and pushed its candidate with the flag up, and
\* a candidate that differs from the held configuration can be pushed next.
C10_Witness ==
    /\ call.op = "set_device_config"
    /\ connected
    /\ selected_device.id = 7
    /\ device_config.config = Normalized(call.config)
    /\ device_config.update_in_progress
    /\ IsPipelinePush(sent, Normalized(call.config))
    /\ \E c \in CandidateConfigs : Normalized(c) # device_config.config

PipelinePush(config) == OutMsg("Pipeline", "", <<>>, NoDevice, config)

\* C11: when connected and a device is selected, set_device_config(c1)
\* followed at once by set_device_config(c2) with a different c2 sends two
\* Pipeline commands, carrying c1 and then c2, the flag being up in between,
\* and the held configuration afterwards is c2.
C11_SecondPushSupersedes ==
    (connected /\ selected_device.id # NoDevice) =>
        \A c1, c2 \in CandidateConfigs :
            Normalized(c1) # Normalized(c2) =>
                LET r1 == set_device_config(Cur, c1)
                    r2 == set_device_config(r1, c2)
                IN  /\ r1.device_config.update_in_progress
                    /\ r2.sent = <<PipelinePush(Normalized(c1)), PipelinePush(Normalized(c2))>>
                    /\ r2.device_config.config = Normalized(c2)

\* set_device_config has pushed the candidate with depth, no echo has been
\* received since (the backend never reports a point cloud), the flag is up,
\* and a different candidate is pushed by the next call.
C11_Witness ==
    /\ call.op = "set_device_config"
    /\ is_some(call.config.depth)
    /\ device_config.update_in_progress
    /\ device_config.config = Normalized(call.config)
    /\ \E c2 \in CandidateConfigs :
           /\ Normalized(c2) # device_config.config
           /\ set_device_config(Cur, c2).sent = <<PipelinePush(Normalized(c2))>>

\* C12: update_in_progress goes from true to false only in a step in which
\* update() handles an inbound event; set_device, set_device_config,
\* set_subscriptions and set_subscriptions_from_space_views leave a raised flag
\* raised, and get_devices changes nothing.
C12_SettersKeepFlag ==
    device_config.update_in_progress =>
        /\ \A id \in DeviceIds :
               set_device(Cur, id).device_config.update_in_progress
        /\ \A c \in CandidateConfigs :
               set_device_config(Cur, c).device_config.update_in_progress
        /\ \A subs \in CandidateSubscriptions :
               set_subscriptions(Cur, subs).device_config.update_in_progress
        /\ \A order \in FewVisibilityOrders, visible \in FewVisibleChannelSets :
               set_subscriptions_from_space_views(Cur, order, visible)
                   .device_config.update_in_progress

C12_FlagFallsOnlyInUpdate ==
    (device_config.update_in_progress /\ ~device_config'.update_in_progress) =>
        /\ call'.op = "update"
        /\ is_some(call'.msg)

C12_FlagClearedOnlyByInboundEvent ==
    [] C12_SettersKeepFlag /\ [][C12_FlagFallsOnlyInUpdate]_vars

\* set_device asked for another device while a push was in flight: a Device
\* command went out and the flag still stands.
C12_Witness ==
    /\ call.op = "set_device"
    /\ call.device_id # selected_device.id
    /\ Len(sent) = 1
    /\ sent[1].cmd = "Device"
    /\ device_config.update_in_progress

SubscriptionsPush(subs) ==
    OutMsg("Subscriptions", "Subscriptions", subs, NoDevice, DeviceConfig_default)

\* The event update() takes off the inbound queue in this state, if any.
Pending(kind) ==
    /\ Len(receiver) > 0
    /\ Head(receiver).frame = "Text"
    /\ Head(receiver).data_ok
    /\ Head(receiver).type = kind

\* C13: in every step in which update_in_progress goes from true to false the
\* event processed is a Pipeline event or a Device event with id -1, and
\* processing a Device event with id -1 leaves the flag false.
C13_DeselectionClearsFlag ==
    ~dispatch(Cur, InDevice(NoDevice)).device_config.update_in_progress

C13_FlagFallsOnPipelineOrDeselection ==
    (device_config.update_in_progress /\ ~device_config'.update_in_progress) =>
        /\ call'.op = "update"
        /\ is_some(call'.msg)
        /\ \/ unwrap(call'.msg).kind = "Pipeline"
           \/ /\ unwrap(call'.msg).kind = "Device"
              /\ unwrap(call'.msg).device.id = NoDevice

C13_FlagClearedOnlyByPipelineOrDeselection ==
    [] C13_DeselectionClearsFlag /\ [][C13_FlagFallsOnPipelineOrDeselection]_vars

\* C14: when update() takes a Device(d) event off the queue, afterwards
\* selected_device is d, update_in_progress is true, and it has sent first
\* one Subscriptions command with the subscriptions held and then one
\* Pipeline command with the configuration held, and no other of either kind.
C14_DeviceEventRepushes ==
    Pending("Device") =>
        LET r == update(Cur)
        IN  /\ r.selected_device = Head(receiver).event.device
            /\ r.device_config.update_in_progress
            /\ Len(r.sent) >= 2
            /\ r.sent[1] = SubscriptionsPush(subscriptions)
            /\ r.sent[2] = PipelinePush(device_config.config)
            /\ Count(r.sent, "Subscriptions") = 1
            /\ Count(r.sent, "Pipeline") = 1

\* update() has processed Device{id:7} while another selection was held and no
\* push was pending: device 7 is selected, the subscriptions and then the
\* configuration went out, and the flag is up.
C14_Witness ==
    /\ call.op = "update"
    /\ is_some(call.msg)
    /\ unwrap(call.msg).kind = "Device"
    /\ selected_device.id = 7
    /\ sent = <<SubscriptionsPush(subscriptions), PipelinePush(device_config.config)>>
    /\ device_config.update_in_progress

C16_DepthEchoSubscribesDepthImage ==
    (/\ Pending("Pipeline")
     /\ ~is_some(device_config.config.depth)
     /\ is_some(Head(receiver).event.config.depth)) =>
        LET r == update(Cur)
        IN  /\ \E i \in 1..Len(r.sent) :
                   /\ r.sent[i].cmd = "Subscriptions"
                   /\ contains(r.sent[i].subscriptions, "DepthImage")
            /\ contains(r.subscriptions, "DepthImage")

\* The held configuration has no depth, DepthImage is not subscribed, a
\* Pipeline event with depth waits on the queue, and update() from here sends
\* the subscriptions with DepthImage added.
C16_Witness ==
    /\ Pending("Pipeline")
    /\ ~is_some(device_config.config.depth)
    /\ is_some(Head(receiver).event.config.depth)
    /\ ~contains(subscriptions, "DepthImage")
    /\ update(Cur).sent = <<SubscriptionsPush(Append(subscriptions, "DepthImage"))>>
    /\ update(Cur).subscriptions = Append(subscriptions, "DepthImage")

\* C17: processing an Error event leaves update_in_progress false and
\* selected_device unchanged; with action FullReset it sends exactly one
\* Device{id:-1} command when a device is selected and nothing when none is;
\* with action None it sends nothing.
C17_ErrorEventClearsAndResets ==
    \A action \in {"None", "FullReset"} :
        LET r == dispatch(Cur, InError(action))
        IN  /\ ~r.device_config.update_in_progress
            /\ r.selected_device = selected_device
            /\ r.sent =
                   IF action = "FullReset" /\ selected_device.id # NoDevice
                   THEN <<OutMsg("Device", "Device", <<>>, NoDevice, DeviceConfig_default)>>
                   ELSE <<>>

\* update() has processed Error{FullReset} with device 7 selected: one
\* Device{id:-1} went out, device 7 is still selected and the flag is down.
C17_Witness ==
    /\ call.op = "update"
    /\ is_some(call.msg)
    /\ unwrap(call.msg).kind = "Error"
    /\ unwrap(call.msg).action = "FullReset"
    /\ selected_device.id = 7
    /\ sent = <<OutMsg("Device", "Device", <<>>, NoDevice, DeviceConfig_default)>>
    /\ ~device_config.update_in_progress

\* C18: when the oldest message on the queue is a text whose type is unknown
\* or whose data does not match the schema of its type, receive() returns an
\* Error event without panicking, and update() is the dispatch of that event
\* followed by the poll.
C18_MalformedYieldsErrorEvent ==
    (Len(receiver) > 0 /\ Malformed(Head(receiver)) /\ ~panicked) =>
        LET r == ws_receive(Cur)
        IN  /\ ~r.s.panicked
            /\ is_some(r.msg)
            /\ unwrap(r.msg).kind = "Error"
            /\ update(Cur) = poll(dispatch(r.s, unwrap(r.msg)))

\* C19: the queue changes only by the listener adding a message at its end or
\* by update() taking the oldest message off it, and the update() that takes a
\* message off returns an event, which for a well-formed text is the event the
\* text holds.
C19_QueueStep ==
    receiver' # receiver =>
        \/ /\ Len(receiver') = Len(receiver) + 1
           /\ SubSeq(receiver', 1, Len(receiver)) = receiver
        \/ /\ Len(receiver) > 0
           /\ receiver' = Tail(receiver)
           /\ call'.op = "update"
           /\ is_some(call'.msg)
           /\ (Head(receiver).frame = "Text" /\ ~Malformed(Head(receiver))) =>
                  unwrap(call'.msg) = Head(receiver).event

C19_NoMessageLostOrReordered == [][C19_QueueStep]_vars

elapse(s, secs) ==
    IF is_some(s.poll_instant)
    THEN [s EXCEPT !.poll_instant = Some(unwrap(@) + secs)]
    ELSE s

\* s as the next call finds it: what the last call sent is no longer counted.
Fresh(s) == [s EXCEPT !.sent = <<>>]

\* C21: an update() that sends a Devices request does so at least two seconds
\* after the poll instant and restarts it, so that a second update() less than
\* two seconds later sends none: two update() calls less than two seconds
\* apart send at most one Devices request in total.
C21_PollAtMostEveryTwoSeconds ==
    LET r == update(Cur)
    IN  /\ Count(r.sent, "Devices") <= 1
        /\ Count(r.sent, "Devices") = 1 =>
               /\ unwrap(poll_instant) >= PollPeriodSecs
               /\ r.poll_instant = Some(0)
        /\ \A gap \in 0..(PollPeriodSecs - 1) :
               Count(r.sent, "Devices") + Count(update(Fresh(elapse(r, gap))).sent, "Devices") <= 1

\* update() has sent a Devices request, one second has passed since, and an
\* update() now sends none.
C21_Witness ==
    /\ call.op = "update"
    /\ Count(sent, "Devices") = 1
    /\ poll_instant = Some(1)
    /\ selected_device.id = NoDevice
    /\ Count(update(Cur).sent, "Devices") = 0

\* C22: an update() sends a Devices request only when no device is selected
\* once its event is dispatched; with a device selected at that point it sends
\* none, whatever time has passed.
C22_PollOnlyWithoutDevice ==
    \A secs \in 0..PollPeriodSecs :
        LET r == update(elapse(Cur, secs))
        IN  r.selected_device.id # NoDevice => Count(r.sent, "Devices") = 0

\* Device 7 is selected, two seconds have passed since the last poll, and
\* update() from here restarts the poll instant without sending anything.
C22_Witness ==
    /\ selected_device.id = 7
    /\ poll_instant = Some(PollPeriodSecs)
    /\ receiver = <<>>
    /\ update(Cur).poll_instant = Some(0)
    /\ update(Cur).sent = <<>>

\* What the backend may report as its catalog, beyond BackendDevices.
CatalogLists == BackendDevices \cup {<<>>, <<11>>}

\* C23: get_devices() returns the list of the last Devices event processed,
\* the empty list when there was none; the call sends nothing and changes no
\* field; the catalog changes only when update() processes a Devices event,
\* and then to the list of that event, whatever it held before.
C23_GetDevicesReadsCatalog ==
    /\ devices_available = None => get_devices(Cur) = <<>>
    /\ \A list \in CatalogLists :
           LET r == dispatch(Cur, InDevices(list))
           IN  /\ get_devices(r) = list
               /\ r.sent = <<>>
               /\ [r EXCEPT !.devices_available = devices_available] = Cur
    /\ call.op = "get_devices" => sent = <<>>

C23_CatalogOnlyByDevicesEvent ==
    devices_available' # devices_available =>
        /\ call'.op = "update"
        /\ is_some(call'.msg)
        /\ unwrap(call'.msg).kind = "Devices"
        /\ devices_available' = Some(unwrap(call'.msg).devices)

ReportedSubscriptions ==
    BackendSubscriptions \cup {<<>>, <<"PointCloud", "DepthImage">>, all_subscriptions}

\* C24: processing a Subscriptions(set) event leaves State.subscriptions equal
\* to set, whatever it held and whatever the held configuration, changes no
\* other field and sends nothing.
C24_SubscriptionsEventReplaces ==
    \A set \in ReportedSubscriptions :
        LET r == dispatch(Cur, InSubscriptions(set))
        IN  /\ r.subscriptions = set
            /\ r.sent = <<>>
            /\ [r EXCEPT !.subscriptions = subscriptions] = Cur

\* update() has processed Subscriptions([Color, Left, Right]) while the held
\* configuration has depth: the three channels are held and nothing went out.
C24_Witness ==
    /\ call.op = "update"
    /\ is_some(call.msg)
    /\ unwrap(call.msg).kind = "Subscriptions"
    /\ subscriptions = unwrap(call.msg).subscriptions
    /\ is_some(device_config.config.depth)
    /\ sent = <<>>

\* C25: every channel of the list set_subscriptions_from_space_views computes
\* is possible under the held configuration: ColorImage, LeftMono or
\* RightMono, DepthImage only with depth, PointCloud only with depth whose
\* pointcloud is enabled.
C25_DesiredOnlyPossible ==
    \A order \in FewVisibilityOrders, visible \in FewVisibleChannelSets :
        LET desired == desired_subscriptions(Cur, order, visible)
            depth == device_config.config.depth
        IN  \A i \in 1..Len(desired) :
                \/ desired[i] \in {"ColorImage", "LeftMono", "RightMono"}
                \/ desired[i] = "DepthImage" /\ is_some(depth)
                \/ desired[i] = "PointCloud" /\ is_some(depth)
                       /\ unwrap(depth).pointcloud.enabled

\* set_subscriptions_from_space_views was called with DepthImage and
\* PointCloud visible and subscribed while the held configuration has no
\* depth: it sent a list without them.
C25_Witness ==
    /\ call.op = "set_subscriptions_from_space_views"
    /\ contains(call.subscriptions, "DepthImage")
    /\ contains(call.subscriptions, "PointCloud")
    /\ ~is_some(device_config.config.depth)
    /\ Len(sent) = 1
    /\ sent[1].cmd = "Subscriptions"
    /\ Elems(sent[1].subscriptions) = {"ColorImage", "LeftMono", "RightMono"}
    /\ subscriptions = sent[1].subscriptions

\* C26: with ColorImage the only channel visible and a held configuration
\* without depth, the list set_subscriptions_from_space_views computes holds
\* ColorImage and nothing else, whatever the current subscriptions.
C26_OnlyColorVisibleDesiresOnlyColor ==
    ~is_some(device_config.config.depth) =>
        \A order \in VisibilityOrders :
            Elems(desired_subscriptions(Cur, order, {"ColorImage"})) = {"ColorImage"}

\* C27: a channel that is subscribed, possible under the held configuration
\* and visible in no space view is in the list
\* set_subscriptions_from_space_views computes.
C27_SubscribedPossibleChannelRetained ==
    \A order \in FewVisibilityOrders, visible \in FewVisibleChannelSets :
        \A i \in 1..Len(all_subscriptions) :
            LET channel == all_subscriptions[i]
            IN  (/\ contains(subscriptions, channel)
                 /\ contains(possible_subscriptions(device_config.config), channel)
                 /\ channel \notin visible) =>
                    contains(desired_subscriptions(Cur, order, visible), channel)

\* set_subscriptions_from_space_views was called with only ColorImage visible
\* while the held configuration has depth with the point cloud enabled: it
\* sent a list that still holds PointCloud.
C27_Witness ==
    /\ call.op = "set_subscriptions_from_space_views"
    /\ call.subscriptions = <<"ColorImage">>
    /\ is_some(device_config.config.depth)
    /\ unwrap(device_config.config.depth).pointcloud.enabled
    /\ Len(sent) = 1
    /\ sent[1].cmd = "Subscriptions"
    /\ contains(sent[1].subscriptions, "PointCloud")
    /\ contains(subscriptions, "PointCloud")

\* C28: a pass of set_subscriptions_from_space_views, or of the Pipeline arm
\* of update(), whose list holds the same channels as the current
\* subscriptions, as sets, sends nothing.
C28_PassWithSameSetSendsNothing ==
    /\ \A order \in FewVisibilityOrders, visible \in FewVisibleChannelSets :
           Elems(desired_subscriptions(Cur, order, visible)) = Elems(subscriptions) =>
               set_subscriptions_from_space_views(Cur, order, visible).sent = <<>>
    /\ \A c \in BackendConfigs :
           Elems(pipeline_subs(subscriptions, c)) = Elems(subscriptions) =>
               dispatch(Cur, InPipeline(c)).sent = <<>>

\* s after n calls of update().
RECURSIVE updates(_, _)
updates(s, n) == IF n = 0 THEN s ELSE updates(update(Fresh(s)), n - 1)

\* C29: update() takes the oldest event off the queue when there is one and
\* no other, dispatches it and then runs the poll on the outcome, what the
\* poll sends following what the dispatch sent; with k events queued, the
\* queue is empty after k calls of update() and after no fewer.
C29_OneEventPerUpdate ==
    LET k == Len(receiver)
        r == ws_receive(Cur)
        u == update(Cur)
    IN  /\ k = 0 => u = poll(Cur)
        /\ k > 0 =>
               /\ u.receiver = Tail(receiver)
               /\ is_some(r.msg)
               /\ unwrap(r.msg) = Head(receiver).event
               /\ LET d == dispatch(r.s, unwrap(r.msg))
                  IN  /\ u.sent = d.sent \o poll(Fresh(d)).sent
                      /\ Fresh(u) = Fresh(poll(d))
        /\ updates(Cur, k).receiver = <<>>
        /\ \A j \in 0..(k - 1) : Len(updates(Cur, j).receiver) = k - j

\* update() has taken Device{id:-1} off a queue of two, two seconds after the
\* last poll: the other event is still queued, and the Devices request of the
\* poll went out after the two commands of the dispatch.
C29_Witness ==
    /\ call.op = "update"
    /\ is_some(call.msg)
    /\ unwrap(call.msg) = InDevice(NoDevice)
    /\ Len(receiver) = 1
    /\ Len(sent) = 3
    /\ sent[1].cmd = "Subscriptions"
    /\ sent[2].cmd = "Pipeline"
    /\ sent[3].cmd = "Devices"
    /\ poll_instant = Some(0)

\* C30: when set_device_config has pushed c1 and then a different c2, and the
\* Pipeline echo of c1 is processed next, the held configuration, which was
\* c2, is c1 afterwards and update_in_progress is false.
C30_StaleEchoOverwrites ==
    (connected /\ selected_device.id # NoDevice) =>
        \A c1, c2 \in CandidateConfigs :
            Normalized(c1) # Normalized(c2) =>
                LET pushed == set_device_config(set_device_config(Cur, c1), c2)
                    r == dispatch(Fresh(pushed), InPipeline(Normalized(c1)))
                IN  /\ pushed.device_config.config = Normalized(c2)
                    /\ r.device_config.config =
                           [Normalized(c1) EXCEPT !.depth_enabled = is_some(c1.depth)]
                    /\ r.device_config.config # Normalized(c2)
                    /\ ~r.device_config.update_in_progress

\* set_device_config has pushed the candidate with depth, which is held with
\* the flag up, the echo of a configuration without depth waits on the queue,
\* and update() from here holds the echoed configuration.
C30_Witness ==
    /\ call.op = "set_device_config"
    /\ is_some(call.config.depth)
    /\ device_config.config = Normalized(call.config)
    /\ device_config.update_in_progress
    /\ Pending("Pipeline")
    /\ ~is_some(Head(receiver).event.config.depth)
    /\ update(Cur).device_config.config = Head(receiver).event.config
    /\ update(Cur).device_config.config # device_config.config

OutboundKinds == {"Subscriptions", "Devices", "Device", "Pipeline"}

\* C31: every message a call puts on the outbound channel is an envelope
\* whose `type` field names its kind, one of Subscriptions, Devices, Device
\* and Pipeline; a configuration push is an envelope of type Pipeline.
C31_EveryOutboundIsEnvelope ==
    \A i \in 1..Len(sent) :
        /\ sent[i].type \in OutboundKinds
        /\ sent[i].type = sent[i].cmd

\* C32: whatever the space views show, the PinholeCamera entity included, and
\* whether or not PinholeCamera is among the current subscriptions,
\* set_subscriptions_from_space_views computes a list without PinholeCamera,
\* sends no command that carries it, and ends without a panic.
C32_PinholeCameraInert ==
    \A order \in FewVisibilityOrders, visible \in PinholeVisibleChannelSets :
        LET r == set_subscriptions_from_space_views(Cur, order, visible)
        IN  /\ ~contains(desired_subscriptions(Cur, order, visible), "PinholeCamera")
            /\ \A i \in 1..Len(r.sent) : ~contains(r.sent[i].subscriptions, "PinholeCamera")
            /\ ~contains(r.subscriptions, "PinholeCamera") \/ r.subscriptions = subscriptions
            /\ ~r.panicked

\* A Subscriptions event has left PinholeCamera among the subscriptions, and
\* set_subscriptions_from_space_views with the ColorImage and PinholeCamera
\* entities visible sends, from here, one list that holds ColorImage and no
\* PinholeCamera.
C32_Witness ==
    /\ contains(subscriptions, "PinholeCamera")
    /\ LET r == set_subscriptions_from_space_views(Cur, all_subscriptions,
                                                   {"ColorImage", "PinholeCamera"})
       IN  /\ Len(r.sent) = 1
           /\ r.sent[1].cmd = "Subscriptions"
           /\ contains(r.sent[1].subscriptions, "ColorImage")
           /\ ~contains(r.sent[1].subscriptions, "PinholeCamera")
           /\ r.subscriptions = r.sent[1].subscriptions

NoRepeat(v) == \A i, j \in 1..Len(v) : v[i] = v[j] => i = j

\* C33: State.subscriptions holds no channel twice, and no Subscriptions
\* command carries a channel twice (the backend's Subscriptions events and
\* the lists the UI passes are duplicate-free).
C33_SubscriptionsDuplicateFree ==
    /\ NoRepeat(subscriptions)
    /\ \A i \in 1..Len(sent) : NoRepeat(sent[i].subscriptions)

\* C34: every channel of State.subscriptions is possible under the held
\* configuration: DepthImage only with depth, PointCloud only with depth
\* whose pointcloud is enabled.
C34_SubscriptionsPossible ==
    \A i \in 1..Len(subscriptions) :
        contains(possible_subscriptions(device_config.config), subscriptions[i])

PipelineQueued(i) == receiver[i].frame = "Text" /\ receiver[i].type = "Pipeline"

\* No answer to a Pipeline command waits on the inbound queue.
NoEchoOutstanding == \A i \in 1..Len(receiver) : ~PipelineQueued(i)

\* C35: with a backend that echoes each Pipeline command once and in order,
\* update_in_progress == false implies that no Pipeline command is awaiting
\* its echo.
C35_FlagDownMeansNothingOutstanding ==
    ~device_config.update_in_progress => NoEchoOutstanding

\* The position in the queue of the last answer to a Pipeline command, 0 if none.
LastEcho ==
    LET at == {i \in 1..Len(receiver) : PipelineQueued(i)}
    IN  IF at = {} THEN 0 ELSE CHOOSE i \in at : \A j \in at : j <= i

\* The push is over: the flag is down and no answer is outstanding.
Settled == ~device_config.update_in_progress /\ NoEchoOutstanding

\* The configuration of the last Pipeline command sent once update() calls,
\* each answered by the backend, have emptied the queue of s; last is the one
\* of the last command sent so far, if any.
RECURSIVE last_command(_, _)
last_command(s, last) ==
    IF Len(s.receiver) = 0
    THEN last
    ELSE LET u == update(Fresh(s))
             is_pipeline(m) == m.cmd = "Pipeline"
             pushes == SelectSeq(u.sent, is_pipeline)
         IN  last_command(echoed(u),
                          IF Len(pushes) > 0 THEN Some(pushes[Len(pushes)].config) ELSE last)

\* Emptying the queue by update() calls leaves the flag down and the
\* configuration of the last command sent: the one whose answer is the last
\* queued, or the one a Device event on the queue makes update() send.
C36_DrainAdoptsLastCommand ==
    LET sent_so_far == IF LastEcho > 0 THEN Some(receiver[LastEcho].event.config) ELSE None
        last == last_command(Cur, sent_so_far)
        d == drained(Cur)
    IN  is_some(last) =>
            /\ d.device_config.config = unwrap(last)
            /\ ~d.device_config.update_in_progress
            /\ (\A i \in 1..Len(receiver) : receiver[i].type # "Device") => last = sent_so_far

\* The held configuration changes only by a push, to the configuration the
\* push sends, or by update() processing an answer, to the one it carries.
C36_ConfigOnlyByPushOrEcho ==
    device_config'.config # device_config.config =>
        \/ /\ call'.op = "set_device_config"
           /\ IsPipelinePush(sent', device_config'.config)
        \/ /\ call'.op = "update"
           /\ is_some(call'.msg)
           /\ unwrap(call'.msg).kind = "Pipeline"
           /\ device_config'.config = unwrap(call'.msg).config

C37_NoPushWithoutDevice ==
    selected_device.id = NoDevice =>
        /\ ~device_config.update_in_progress
        /\ Count(sent, "Pipeline") = 0

\* C38: a subscribed channel that no space view shows as visible (every
\* report of it has visible == false) is not in the list
\* set_subscriptions_from_space_views computes, nor in a command it sends.
C38_InvisibleChannelUnsubscribed ==
    \A order \in FewVisibilityOrders, visible \in FewVisibleChannelSets :
        \A i \in 1..Len(all_subscriptions) :
            LET channel == all_subscriptions[i]
                r == set_subscriptions_from_space_views(Cur, order, visible)
            IN  (contains(subscriptions, channel) /\ channel \notin visible) =>
                    /\ ~contains(desired_subscriptions(Cur, order, visible), channel)
                    /\ \A j \in 1..Len(r.sent) : ~contains(r.sent[j].subscriptions, channel)

\* update() sends a Devices request.
PollStep == call'.op = "update" /\ Count(sent', "Devices") = 1

\* An update() that finds two seconds elapsed and leaves no device selected
\* sends one Devices request.
C39_PollWhenDue ==
    (is_some(poll_instant) /\ unwrap(poll_instant) >= PollPeriodSecs) =>
        LET u == update(Cur)
        IN  u.selected_device.id = NoDevice => Count(u.sent, "Devices") = 1

====
